---- MODULE Spec2Model ----
(***************************************************************************)
(* A model of the geetools extension layer: the User credential manager    *)
(* (src/geetools/User/__init__.py) and the ImageCollection helpers         *)
(* outliers, groupInterval, medoid and reduceRegion                        *)
(* (src/geetools/ee_image_collection.py).                                  *)
(*                                                                         *)
(* Strings that the code takes apart (band names, identifiers, file names) *)
(* are sequences: a band name is a tuple of one-character strings, a file  *)
(* name is a tuple of tokens whose first token is "credentials".           *)
(***************************************************************************)
EXTENDS Integers, Sequences, FiniteSets, TLC

VARIABLES fs, tmp, session, nextCred, pc, call, coll, result

vars == <<fs, tmp, session, nextCred, pc, call, coll, result>>

\* ------------------------------------------------------------------------
\* Bounds of the model
\* ------------------------------------------------------------------------

\* credentials are numbered 1..MaxCred; 0 is "no file" / "no session"
MaxCred == 3

\* ------------------------------------------------------------------------
\* Generic helpers
\* ------------------------------------------------------------------------

None == "none"

Range(s) == {s[i] : i \in 1..Len(s)}

NonEmptySeqsUpTo(S, n) == UNION {[1..k -> S] : k \in 1..n}

\* ------------------------------------------------------------------------
\* User: the credential files
\* ------------------------------------------------------------------------

\* the directory of ee.oauth.get_credentials_path() and one other directory
\* that a caller can pass as credential_pathname
Dirs == {"home", "alt"}

DefaultDir == "home"

\* user names, as token sequences; <<>> is the empty name
Names == {<<>>, <<"A">>, <<"B">>}

\* name = f"credentials{name}"
CredFile(name) == <<"credentials">> \o name

FileNames == {CredFile(n) : n \in Names}

Paths == Dirs \X FileNames

\* default = Path(ee.oauth.get_credentials_path())
DefaultPath == <<DefaultDir, CredFile(<<>>)>>

\* credential_pathname = credential_pathname or ee.oauth.get_credentials_path()
\* credential_path = Path(credential_pathname).parent
CredentialPath(dir) == IF dir = "" THEN DefaultDir ELSE dir

DirArgs == {""} \cup Dirs

NoCall == [op |-> None]

PureIdle == coll = <<>> /\ result = None

\* ---- User.create ------------------------------------------------------

\* a first move that copies the default file and leaves it in place
CreateBeginCopy(name, dir) ==
    /\ pc = "idle"
    /\ nextCred <= MaxCred
    /\ LET c == [op |-> "create", name |-> name, dir |-> dir, pre |-> fs,
                 new |-> 0, raised |-> FALSE]
       IN IF fs[DefaultPath] = 0
          THEN /\ call' = [c EXCEPT !.raised = TRUE]
               /\ UNCHANGED <<fs, tmp, pc>>
          ELSE /\ tmp' = fs[DefaultPath]
               /\ pc' = "authenticate"
               /\ call' = c
               /\ UNCHANGED fs
    /\ UNCHANGED <<session, nextCred, coll, result>>

\* suppress(move(default, Path(dir) / default.name)): the move runs while the
\* argument of suppress() is evaluated, outside any with-block, so a missing
\* default file raises FileNotFoundError out of create; leaving the
\* TemporaryDirectory block removes the directory.
CreateBegin(name, dir) ==
    /\ pc = "idle"
    /\ nextCred <= MaxCred
    /\ LET c == [op |-> "create", name |-> name, dir |-> dir, pre |-> fs,
                 new |-> 0, raised |-> FALSE]
       IN IF fs[DefaultPath] = 0
          THEN /\ call' = [c EXCEPT !.raised = TRUE]
               /\ UNCHANGED <<fs, tmp, pc>>
          ELSE /\ tmp' = fs[DefaultPath]
               /\ fs' = [fs EXCEPT ![DefaultPath] = 0]
               /\ pc' = "authenticate"
               /\ call' = c
    /\ UNCHANGED <<session, nextCred, coll, result>>

\* ee.Authenticate(): writes a new credential to the default file, or raises
\* (the authorization flow is external and can fail); on a raise the
\* TemporaryDirectory block is left and the directory is removed with the
\* backup in it.
CreateAuthenticate ==
    /\ pc = "authenticate"
    /\ \/ /\ fs' = [fs EXCEPT ![DefaultPath] = nextCred]
          /\ call' = [call EXCEPT !.new = nextCred]
          /\ nextCred' = nextCred + 1
          /\ pc' = "relocate"
          /\ UNCHANGED tmp
       \/ /\ call' = [call EXCEPT !.raised = TRUE]
          /\ tmp' = 0
          /\ pc' = "idle"
          /\ UNCHANGED <<fs, nextCred>>
    /\ UNCHANGED <<session, coll, result>>

\* a move that writes the destination but from the wrong side
MoveReversed(files, src, dst) ==
    IF src = dst THEN files
    ELSE [files EXCEPT ![src] = files[dst], ![dst] = 0]

\* shutil.move(src, dst) of an existing file: os.rename, which replaces dst
\* and is a no-op when src and dst are the same file
Move(files, src, dst) ==
    IF src = dst THEN files
    ELSE [files EXCEPT ![dst] = files[src], ![src] = 0]

\* move(default, credential_path / name)
CreateRelocate ==
    /\ pc = "relocate"
    /\ fs' = Move(fs, DefaultPath, <<CredentialPath(call.dir), CredFile(call.name)>>)
    /\ pc' = "restore"
    /\ UNCHANGED <<tmp, session, nextCred, call, coll, result>>

\* suppress(move(Path(dir) / default.name, default)), then the end of the
\* TemporaryDirectory block
CreateRestore ==
    /\ pc = "restore"
    /\ fs' = [fs EXCEPT ![DefaultPath] = tmp]
    /\ tmp' = 0
    /\ pc' = "idle"
    /\ UNCHANGED <<session, nextCred, call, coll, result>>

\* ---- what a directory entry can be --------------------------------------

\* the content of a path: 0 when nothing is there, k in 1..MaxCred for a
\* credential file (a JSON object holding refresh_token, client_id and
\* client_secret of credential k), Malformed for a regular file that is not
\* such an object (not JSON, or a key is missing), Directory for a
\* sub-directory of that name
Malformed == -1

Directory == -2

\* f.is_file()
IsFile(content) == content # 0 /\ content # Directory

\* ---- User.rename ------------------------------------------------------

\* def rename(new, old="", credential_pathname=""): the first positional
\* argument is bound to `new`, the second to `old`
RenameNew(first, second) == first

RenameOld(first, second) == second

\* (credential_path / old).rename(credential_path / new) raises
\* FileNotFoundError when old is missing, which suppress() swallows; a file
\* renamed onto a directory (IsADirectoryError) or a directory onto a file
\* (NotADirectoryError) raises an OSError that suppress() lets through
RenameRaises(files, dir, new, old) ==
    LET src == <<CredentialPath(dir), CredFile(old)>>
        dst == <<CredentialPath(dir), CredFile(new)>>
    IN /\ files[src] # 0
       /\ src # dst
       /\ \/ IsFile(files[src]) /\ files[dst] = Directory
          \/ files[src] = Directory /\ IsFile(files[dst])

\* a rename that does not notice that the source is missing
RenameFilesUnguarded(files, dir, new, old) ==
    Move(files, <<CredentialPath(dir), CredFile(old)>>, <<CredentialPath(dir), CredFile(new)>>)

\* with suppress(FileNotFoundError): (credential_path / old).rename(credential_path / new)
RenameFiles(files, dir, new, old) ==
    LET src == <<CredentialPath(dir), CredFile(old)>>
        dst == <<CredentialPath(dir), CredFile(new)>>
    IN IF files[src] = 0 \/ RenameRaises(files, dir, new, old) THEN files
       ELSE Move(files, src, dst)

\* the call rename(first, second, dir)
Rename(first, second, dir) ==
    /\ pc = "idle"
    /\ LET new == RenameNew(first, second)
           old == RenameOld(first, second)
       IN /\ fs' = RenameFiles(fs, dir, new, old)
          /\ call' = [op |-> "rename", first |-> first, second |-> second,
                      dir |-> dir, pre |-> fs,
                      raised |-> RenameRaises(fs, dir, new, old)]
    /\ UNCHANGED <<tmp, session, nextCred, pc, coll, result>>

\* ---- User.delete ------------------------------------------------------

\* an unlink that empties the whole directory of the path
UnlinkDirectory(files, path) ==
    [p \in DOMAIN files |-> IF p[1] = path[1] /\ IsFile(files[p]) THEN 0 ELSE files[p]]

\* Path.unlink() of a directory raises IsADirectoryError (PermissionError on
\* some systems), which is not FileNotFoundError
UnlinkRaises(files, path) == files[path] = Directory

\* with suppress(FileNotFoundError): path.unlink()
Unlink(files, path) ==
    IF IsFile(files[path]) THEN [files EXCEPT ![path] = 0] ELSE files

\* the call delete(name, dir)
Delete(name, dir) ==
    /\ pc = "idle"
    /\ LET path == <<CredentialPath(dir), CredFile(name)>>
       IN /\ fs' = Unlink(fs, path)
          /\ call' = [op |-> "delete", name |-> name, dir |-> dir, pre |-> fs,
                      raised |-> UnlinkRaises(fs, path)]
    /\ UNCHANGED <<tmp, session, nextCred, pc, coll, result>>

\* ---- User.set ---------------------------------------------------------

\* a loader that only fails on a missing file
LoadRaisesWhenAbsent(content) == content = 0

\* the try block of set: read_text() raises on a missing file or a directory,
\* json.loads raises on text that is not JSON, tokens[...] raises on a missing
\* key; every one of them is caught and re-raised as ee.EEException
LoadRaises(content) == content <= 0

\* an initialisation that keeps a session that is already active
InitializeOnce(active, credentials) == IF active = 0 THEN credentials ELSE active

\* ee.Initialize(credentials): the credentials become the active session
Initialize(active, credentials) == credentials

\* the call set(name, dir)
Set(name, dir) ==
    /\ pc = "idle"
    /\ LET c == fs[<<CredentialPath(dir), CredFile(name)>>]
       IN /\ call' = [op |-> "set", name |-> name, dir |-> dir, pre |-> fs,
                      was |-> session, raised |-> LoadRaises(c)]
          /\ session' = IF LoadRaises(c) THEN session ELSE Initialize(session, c)
    /\ UNCHANGED <<fs, tmp, nextCred, pc, coll, result>>

\* ---- User.list --------------------------------------------------------

\* credential_path.glob("credentials*")
Glob(fileName) == fileName # <<>> /\ fileName[1] = "credentials"

\* f.name.replace("credentials", "") or "default": str.replace removes every
\* occurrence of the text
UserName(fileName) ==
    LET Other(t) == t # "credentials"
        stripped == SelectSeq(fileName, Other)
    IN IF stripped = <<>> THEN <<"default">> ELSE stripped

\* files = [f for f in credential_path.glob("credentials*") if f.is_file()]
ListFiles(files, dir) ==
    {p \in DOMAIN files : p[1] = CredentialPath(dir) /\ Glob(p[2]) /\ IsFile(files[p])}

\* the orders in which glob can yield a set of paths
Orderings(S) ==
    {s \in [1..Cardinality(S) -> S] : \A i, j \in 1..Cardinality(S) : i # j => s[i] # s[j]}

\* the call list(dir); the returned list is kept in the call record
List(dir) ==
    /\ pc = "idle"
    /\ \E files \in Orderings(ListFiles(fs, dir)) :
          call' = [op |-> "list", dir |-> dir, pre |-> fs, raised |-> FALSE,
                   files |-> files,
                   ret |-> [i \in 1..Len(files) |-> UserName(files[i][2])]]
    /\ UNCHANGED <<fs, tmp, session, nextCred, pc, coll, result>>

\* ---- the User specification ---------------------------------------------

InitUser ==
    /\ fs \in {f \in [Paths -> {0, 1}] : \A p \in Paths : p # DefaultPath => f[p] = 0}
    /\ tmp = 0
    /\ session = 0
    /\ nextCred = 2
    /\ pc = "idle"
    /\ call = NoCall
    /\ PureIdle

NextUser ==
    \/ \E n \in Names, d \in DirArgs : CreateBegin(n, d)
    \/ CreateAuthenticate
    \/ CreateRelocate
    \/ CreateRestore
    \/ \E a \in Names, b \in Names, d \in DirArgs : Rename(a, b, d)
    \/ \E n \in Names, d \in DirArgs : Delete(n, d)
    \/ \E n \in Names, d \in DirArgs : Set(n, d)
    \/ \E d \in DirArgs : List(d)

SpecUser == InitUser /\ [][NextUser]_vars

\* ------------------------------------------------------------------------
\* User.create interrupted by a crash of the process
\* ------------------------------------------------------------------------

\* the process dies between two statements of the TemporaryDirectory block of
\* create: no further statement runs, the files stay as they are, and the
\* temporary directory with the backup is left behind, out of reach of any
\* later call
Crash ==
    /\ pc \in {"authenticate", "relocate", "restore"}
    /\ call' = [op |-> "crash", at |-> pc, name |-> call.name, dir |-> call.dir,
                pre |-> call.pre, orphan |-> tmp]
    /\ tmp' = 0
    /\ pc' = "idle"
    /\ UNCHANGED <<fs, session, nextCred, coll, result>>

NextCrash ==
    \/ \E n \in Names, d \in DirArgs : CreateBegin(n, d)
    \/ CreateAuthenticate
    \/ CreateRelocate
    \/ CreateRestore
    \/ Crash
    \/ \E n \in Names, d \in DirArgs : Delete(n, d)

SpecCrash == InitUser /\ [][NextCrash]_vars

\* ---- the credential directory specification -------------------------------
\* The same calls over a directory that was filled by hand: a user whose name
\* is the text "credentials", a file that is no credential file, and one entry
\* that is a malformed file or a sub-directory.

StoredNames == << <<>>, <<"A">>, <<"B">>, <<"credentials">> >>

\* a file of the directory that glob("credentials*") does not match
OtherFile == <<"notes">>

DirectoryPaths == Dirs \X ({CredFile(n) : n \in Range(StoredNames)} \cup {OtherFile})

\* the credential that the file of the i-th name holds when it is there
StoredCred(i) == ((i - 1) % 2) + 1

\* the entries that can be a malformed file or a sub-directory
SpecialPaths == {<<DefaultDir, CredFile(<<"A">>)>>}

InitDirectory ==
    /\ \E present \in SUBSET (1..Len(StoredNames)), special \in {0, Malformed, Directory} :
          fs = [p \in DirectoryPaths |->
                   IF p[2] = OtherFile THEN 1
                   ELSE IF p[1] # DefaultDir
                        THEN (IF p[2] = CredFile(<<"A">>) THEN 2 ELSE 0)
                   ELSE IF p \in SpecialPaths /\ special # 0 THEN special
                   ELSE IF \E i \in present : p[2] = CredFile(StoredNames[i])
                        THEN StoredCred(CHOOSE i \in present : p[2] = CredFile(StoredNames[i]))
                        ELSE 0]
    /\ tmp = 0
    /\ session = 0
    /\ nextCred = 1
    /\ pc = "idle"
    /\ call = NoCall
    /\ PureIdle

DirectoryArgs == {"", "alt"}

NextDirectory ==
    \/ \E a \in Range(StoredNames), b \in Range(StoredNames) : Rename(a, b, "")
    \/ \E n \in Range(StoredNames), d \in DirectoryArgs : Delete(n, d)
    \/ \E n \in Range(StoredNames), d \in DirectoryArgs : Set(n, d)
    \/ \E d \in DirectoryArgs : List(d)

SpecDirectory == InitDirectory /\ [][NextDirectory]_vars

\* ---- claims about User ---------------------------------------------------

CreateTarget == <<CredentialPath(call.dir), CredFile(call.name)>>

CreateReturned == pc = "idle" /\ call.op = "create" /\ ~call.raised

\* C4: create(name) with a non-empty name, a default credential file in place
\* and a successful authorization ends with the new credential stored under
\* credentials<name> in the target directory and the default credential file
\* holding the content it had before the call.
C4_CreateNamedKeepsDefault ==
    (CreateReturned /\ call.name # <<>> /\ call.pre[DefaultPath] # 0)
        => /\ call.new # 0
           /\ fs[CreateTarget] = call.new
           /\ fs[DefaultPath] = call.pre[DefaultPath]

C4_Witness ==
    /\ CreateReturned
    /\ call.name = <<"A">>
    /\ call.pre[DefaultPath] = 1
    /\ fs[CreateTarget] = 2

\* C5: create() with the empty name re-authenticates the default user: after
\* the call the default credential file holds the credential written by the
\* new authorization.
C5_CreateDefaultReauthenticates ==
    (CreateReturned /\ call.name = <<>> /\ CredentialPath(call.dir) = DefaultDir)
        => fs[DefaultPath] = call.new

\* C6: rename(old, new), the existing user's name first and the new name
\* second, moves the credential of credentials<old> to credentials<new> and
\* leaves no file credentials<old>.
C6_RenameOldThenNew ==
    (/\ call.op = "rename"
     /\ call.first # call.second
     /\ call.pre[<<CredentialPath(call.dir), CredFile(call.first)>>] # 0)
        => /\ fs[<<CredentialPath(call.dir), CredFile(call.second)>>]
                = call.pre[<<CredentialPath(call.dir), CredFile(call.first)>>]
           /\ fs[<<CredentialPath(call.dir), CredFile(call.first)>>] = 0

\* ---- claims about set, list, delete and rename ----------------------------

CallPath(name) == <<CredentialPath(call.dir), CredFile(name)>>

\* C11: set(name) activates the credential read from credentials<name> when
\* that file exists and holds the three keys; when the file is absent or
\* malformed the call raises and the session that was active stays active.
C11_SetActivatesOrRaises ==
    call.op = "set" =>
        LET c == call.pre[CallPath(call.name)]
        IN /\ c >= 1 => (~call.raised /\ session = c)
           /\ (c = 0 \/ c = Malformed) => (call.raised /\ session = call.was)

C11_Witness ==
    /\ call.op = "set"
    /\ call.pre[CallPath(call.name)] = Malformed
    /\ call.raised
    /\ session = 1

\* C12: the active session is last-writer-wins: a set call that succeeds makes
\* the credential it loaded the active one, whatever was active before, and no
\* other step (a set call that raises, a list, a delete, a rename) changes the
\* active session.
C12_LastWriterWins ==
    [][IF call'.op = "set" /\ ~call'.raised
       THEN session' = fs[<<CredentialPath(call'.dir), CredFile(call'.name)>>]
       ELSE session' = session]_vars

C12_Witness ==
    /\ call.op = "set"
    /\ ~call.raised
    /\ call.was = 1
    /\ session = 2

\* what the file name leaves after its leading "credentials"
Suffix(fileName) == IF Len(fileName) = 1 THEN <<"default">> ELSE Tail(fileName)

\* the regular files of the listed directory whose name starts with credentials
CredentialFiles ==
    {p \in DOMAIN call.pre : /\ p[1] = CredentialPath(call.dir)
                             /\ p[2][1] = "credentials"
                             /\ call.pre[p] \notin {0, Directory}}

\* C13: list() returns one name per regular file of the directory whose name
\* starts with credentials, the suffix after credentials for a named user and
\* "default" for the bare file, and changes no file.
C13_ListNamesEveryCredentialFile ==
    call.op = "list" =>
        /\ fs = call.pre
        /\ Len(call.ret) = Cardinality(CredentialFiles)
        /\ Range(call.files) = CredentialFiles
        /\ \A i \in 1..Len(call.ret) : call.ret[i] = Suffix(call.files[i][2])

\* C14: delete(name) removes exactly credentials<name> and leaves every other
\* entry as it was; when the file does not exist it raises nothing and changes
\* nothing, and a second delete of the same name changes nothing more.
C14_DeleteExactlyOne ==
    call.op = "delete" =>
        LET target == CallPath(call.name)
        IN /\ \A p \in DOMAIN fs : p # target => fs[p] = call.pre[p]
           /\ call.pre[target] \notin {0, Directory} => (fs[target] = 0 /\ ~call.raised)
           /\ call.pre[target] = 0 => (fs = call.pre /\ ~call.raised)
           /\ Unlink(fs, target) = fs

C14_Witness ==
    /\ call.op = "delete"
    /\ call.name = <<"A">>
    /\ call.pre[CallPath(<<"A">>)] = 2
    /\ fs[CallPath(<<"A">>)] = 0
    /\ fs[CallPath(<<"B">>)] = 2
    /\ fs[CallPath(<<>>)] = 1

\* C15: a rename whose source file does not exist raises nothing and leaves
\* the directory unchanged; an error of delete or rename that is not
\* file-not-found (the target of delete is a directory, a file is renamed
\* onto a directory or a directory onto a file) reaches the caller.
C15_OnlyNotFoundIsSwallowed ==
    /\ call.op = "rename" =>
          LET src == call.pre[CallPath(call.second)]
              dst == call.pre[CallPath(call.first)]
          IN /\ src = 0 => (~call.raised /\ fs = call.pre)
             /\ (src \notin {0, Directory} /\ dst = Directory) => call.raised
             /\ (src = Directory /\ dst \notin {0, Directory}) => call.raised
    /\ call.op = "delete" =>
          (call.pre[CallPath(call.name)] = Directory => call.raised)

C15_Witness ==
    /\ call.op = "rename"
    /\ call.pre[CallPath(call.second)] = 0
    /\ call.pre[CallPath(call.first)] = 2
    /\ fs[CallPath(call.first)] = 2

\* ------------------------------------------------------------------------
\* Images: one pixel of a multi-band raster
\* ------------------------------------------------------------------------

\* band names of the modelled collections
B1 == <<"B", "1">>

B2 == <<"B", "2">>

BandNames == <<B1, B2>>

\* one band of one pixel: its name, its value and whether the pixel is valid
Band(n, v) == [name |-> n, val |-> v, mask |-> TRUE]

\* ee.Image.bandNames()
bandNames(i) == [k \in 1..Len(i) |-> i[k].name]

\* position of the first band called n
IndexOf(names, n) ==
    CHOOSE k \in 1..Len(names) :
        names[k] = n /\ \A j \in 1..(k - 1) : names[j] # n

\* ee.Image.select(names): the named bands, in the order asked
select(i, names) ==
    [k \in 1..Len(names) |-> i[IndexOf(bandNames(i), names[k])]]

\* ee.Image.rename(names): positional
rename(i, names) == [k \in 1..Len(i) |-> [i[k] EXCEPT !.name = names[k]]]

\* ee.Image.addBands(src, overwrite): a band of src whose name is taken
\* replaces the band of that name (overwrite) or is appended under the name
\* with the suffix "_1"; any other band is appended
RECURSIVE addBands(_, _, _)
addBands(dst, src, overwrite) ==
    IF src = <<>> THEN dst
    ELSE LET b == Head(src)
             taken == b.name \in Range(bandNames(dst))
             next == IF ~taken THEN Append(dst, b)
                     ELSE IF overwrite
                          THEN [dst EXCEPT ![IndexOf(bandNames(dst), b.name)] = b]
                          ELSE Append(dst, [b EXCEPT !.name = b.name \o <<"_", "1">>])
         IN addBands(next, Tail(src), overwrite)

RECURSIVE SumSeq(_)
SumSeq(s) == IF s = <<>> THEN 0 ELSE Head(s) + SumSeq(Tail(s))

\* the values of band k over the images of a collection
ValuesAt(c, k) == [i \in 1..Len(c) |-> c[i][k].val]

\* ------------------------------------------------------------------------
\* ImageCollection.outliers
\* ------------------------------------------------------------------------

OutlierSuffix == <<"_", "o", "u", "t", "l", "i", "e", "r">>

\* initBands = self._obj.first().bandNames()
initBands(c) == bandNames(c[1])

\* statBands = ee.List(bands) if bands else initBands
statBands(c, bands) == IF bands # <<>> THEN bands ELSE initBands(c)

\* outBands = statBands.map(lambda b: ee.String(b).cat("_outlier"))
outBands(sb) == [k \in 1..Len(sb) |-> sb[k] \o OutlierSuffix]

\* statCollection = self._obj.select(statBands)
statCollection(c, sb) == [i \in 1..Len(c) |-> select(c[i], sb)]

\* statCollection.mean(): per band the exact mean s/n of the n values
mean(sc) ==
    [k \in 1..Len(sc[1]) |->
        [name |-> sc[1][k].name, n |-> Len(sc), s |-> SumSeq(ValuesAt(sc, k))]]

\* statCollection.reduce(ee.Reducer.stdDev()): per band the population
\* standard deviation sqrt(sum((v - mean)^2) / n), kept exact as
\* q = sum((n*v - s)^2), so that stdDev = sqrt(q / n^3)
stdDev(sc) ==
    [k \in 1..Len(sc[1]) |->
        LET vs == ValuesAt(sc, k)
            n == Len(sc)
            s == SumSeq(vs)
        IN [name |-> sc[1][k].name \o <<"_", "s", "t", "d", "D", "e", "v">>,
            n |-> n,
            q |-> SumSeq([i \in 1..n |-> (n * vs[i] - s) * (n * vs[i] - s)])]]

\* a lower bound that leaves sigma out: mean.subtract(stdDev)
minValuesNoSigma(m, sd, sigma) ==
    [k \in 1..Len(m) |-> [name |-> m[k].name, n |-> m[k].n, s |-> m[k].s,
                          q |-> sd[k].q, e |-> 0 - 1]]

\* minValues = mean.subtract(stdDev.multiply(sigma)): per band the bound
\* s/n + e * sqrt(q / n^3) with e = -sigma, kept as its exact parts
minValues(m, sd, sigma) ==
    [k \in 1..Len(m) |-> [name |-> m[k].name, n |-> m[k].n, s |-> m[k].s,
                          q |-> sd[k].q, e |-> 0 - sigma]]

\* maxValues = mean.add(stdDev.multiply(sigma)): the bound with e = sigma
maxValues(m, sd, sigma) ==
    [k \in 1..Len(m) |-> [name |-> m[k].name, n |-> m[k].n, s |-> m[k].s,
                          q |-> sd[k].q, e |-> sigma]]

\* ee.Image.gt at one band: v > s/n + e*sqrt(q/n^3). With d = n*v - s this is
\* d > e*sqrt(q/n): for e >= 0, d > 0 and n*d^2 > e^2*q; for e < 0, d >= 0
\* or n*d^2 < e^2*q
GtBound(v, t) ==
    LET d == t.n * v - t.s
    IN IF t.e >= 0
       THEN d > 0 /\ t.n * d * d > t.e * t.e * t.q
       ELSE d >= 0 \/ t.n * d * d < t.e * t.e * t.q

\* ee.Image.lt at one band: v < s/n + e*sqrt(q/n^3)
LtBound(v, t) ==
    LET d == t.n * v - t.s
    IN IF t.e <= 0
       THEN d < 0 /\ t.n * d * d > t.e * t.e * t.q
       ELSE d <= 0 \/ t.n * d * d < t.e * t.e * t.q

Bool(b) == IF b THEN 1 ELSE 0

\* outImage.gt(maxValues).And(outImage.lt(minValues))
outlierTestAnd(outImage, lo, hi) ==
    [k \in 1..Len(outImage) |->
        [outImage[k] EXCEPT
            !.val = Bool(GtBound(outImage[k].val, hi[k]) /\ LtBound(outImage[k].val, lo[k]))]]

\* outImage.gt(maxValues).Or(outImage.lt(minValues)): band by band
outlierTest(outImage, lo, hi) ==
    [k \in 1..Len(outImage) |->
        [outImage[k] EXCEPT
            !.val = Bool(GtBound(outImage[k].val, hi[k]) \/ LtBound(outImage[k].val, lo[k]))]]

\* def computeOutlierBands(i), with the statBands, outBands, minValues and
\* maxValues of the enclosing call
computeOutlierBands(i, sb, ob, lo, hi) ==
    LET outImage == outlierTest(select(i, sb), lo, hi)
    IN addBands(i, rename(outImage, ob), FALSE)

\* ee.Image.Not()
Not(i) == [k \in 1..Len(i) |-> [i[k] EXCEPT !.val = Bool(i[k].val = 0)]]

\* ee.Image.updateMask(mask): band by band, a pixel stays valid where it was
\* valid and the mask is non-zero
updateMask(i, m) ==
    [k \in 1..Len(i) |-> [i[k] EXCEPT !.mask = i[k].mask /\ m[k].mask /\ m[k].val # 0]]

\* a mask step that keeps the outliers and drops the rest
maskOutliersKeepsFlagged(i, ib, sb, ob) ==
    LET maskedBands == updateMask(select(i, sb), select(i, ob))
    IN select(addBands(i, maskedBands, TRUE), ib)

\* def maskOutliers(i), with the initBands, statBands and outBands of the
\* enclosing call
maskOutliers(i, ib, sb, ob) ==
    LET maskedBands == updateMask(select(i, sb), Not(select(i, ob)))
    IN select(addBands(i, maskedBands, TRUE), ib)

\* outliers(bands, sigma, drop)
outliers(c, bands, sigma, drop) ==
    LET ib == initBands(c)
        sb == statBands(c, bands)
        ob == outBands(sb)
        sc == statCollection(c, sb)
        m == mean(sc)
        sd == stdDev(sc)
    IN CHOOSE r \in {IF drop = FALSE THEN ic
                     ELSE [i \in 1..Len(ic) |-> maskOutliers(ic[i], ib, sb, ob)] :
                 ic \in {[i \in 1..Len(c) |-> computeOutlierBands(c[i], sb, ob, lo, hi)] :
                     lo \in {minValues(m, sd, sigma)},
                     hi \in {maxValues(m, sd, sigma)}}} : TRUE

\* ---- the outliers specification -------------------------------------------

\* number of images of a generated collection
MaxImages == 3

\* pixel values of a generated collection are 0..MaxVal
MaxVal == 1

\* sigma is 0..MaxSigma
MaxSigma == 2

UserIdle ==
    /\ fs = [p \in Paths |-> 0]
    /\ tmp = 0
    /\ session = 0
    /\ nextCred = 1
    /\ pc = "idle"

UserVars == <<fs, tmp, session, nextCred, pc>>

\* an image with the bands B1, B2
Image2(v1, v2) == <<Band(B1, v1), Band(B2, v2)>>

\* the values of the second band
SecondValues == {0, 1}

Images == {Image2(v1, v2) : v1 \in 0..MaxVal, v2 \in SecondValues}

Collections == NonEmptySeqsUpTo(Images, MaxImages)

\* the values of the example of the docstring of outliers, in band B1
DocValues == <<1, 5, 6, 4, 7, 10>>

DocCollection == [i \in 1..Len(DocValues) |-> Image2(DocValues[i], 0)]

\* the band lists a caller passes: no band, one band, or both in either order
BandArgs == {<<>>, <<B1>>, <<B2>>, <<B1, B2>>, <<B2, B1>>}

InitOutliers ==
    /\ UserIdle
    /\ call = NoCall
    /\ coll \in Collections \cup {DocCollection}
    /\ result = None

Outliers(bands, sigma, drop) ==
    /\ call = NoCall
    /\ call' = [op |-> "outliers", bands |-> bands, sigma |-> sigma, drop |-> drop]
    /\ result' = outliers(coll, bands, sigma, drop)
    /\ UNCHANGED <<coll, UserVars>>

NextOutliers ==
    \E bands \in BandArgs, sigma \in 0..MaxSigma, drop \in BOOLEAN :
        Outliers(bands, sigma, drop)

SpecOutliers == InitOutliers /\ [][NextOutliers]_vars

\* ------------------------------------------------------------------------
\* ImageCollection.groupInterval
\* ------------------------------------------------------------------------

\* image times are multiples of half a second, up to MaxTick half seconds
MaxTick == 4

\* the longest duration passed to groupInterval
MaxDuration == 2

TimeValues == {500 * k : k \in 0..MaxTick}

\* the collection of a sequence of times: image i carries its position as
\* identity and times[i] as system:time_start
TimedCollection(times) == [i \in 1..Len(times) |-> [id |-> i, time |-> times[i]]]

TimedCollections == {TimedCollection(t) : t \in NonEmptySeqsUpTo(TimeValues, MaxImages)}

\* insertion of an image after the images that are not later than it
RECURSIVE Insert(_, _)
Insert(sorted, x) ==
    IF sorted = <<>> THEN <<x>>
    ELSE IF Head(sorted).time <= x.time
         THEN <<Head(sorted)>> \o Insert(Tail(sorted), x)
         ELSE <<x>> \o sorted

\* ic = self._obj.sort("system:time_start"): ascending, stable
RECURSIVE sort(_)
sort(c) == IF c = <<>> THEN <<>> ELSE Insert(sort(SubSeq(c, 1, Len(c) - 1)), c[Len(c)])

\* the fixed multiplier of a unit, in milliseconds
unitMillis(unit) ==
    CASE unit = "second" -> 1000
      [] unit = "minute" -> 60 * 1000

Units == {"second", "minute"}

RECURSIVE splitFrom(_, _, _)
splitFrom(from, end, interval) ==
    IF from >= end THEN <<>>
    ELSE LET to == IF from + interval < end THEN from + interval ELSE end
         IN <<[start |-> from, end |-> to]>> \o splitFrom(to, end, interval)

\* ee.DateRange(start, end).geetools.split(duration, unit): the span cut into
\* buckets of duration units from its start, the last one ending at the end
\* of the span
split(start, end, duration, unit) == splitFrom(start, end, duration * unitMillis(unit))

\* ee.ImageCollection.filterDate(start, end): start inclusive, end exclusive
filterDate(c, start, end) ==
    SelectSeq(c, LAMBDA i : start <= i.time /\ i.time < end)

\* groupInterval(unit, duration)
groupInterval(c, unit, duration) ==
    LET ic == sort(c)
        timeList == [i \in 1..Len(ic) |-> ic[i].time]
        start == timeList[1]
        end == timeList[Len(timeList)]
        DateRangeList == split(start, end, duration, unit)
    IN [k \in 1..Len(DateRangeList) |->
           filterDate(ic, DateRangeList[k].start, DateRangeList[k].end)]

InitGroupInterval ==
    /\ UserIdle
    /\ call = NoCall
    /\ coll \in TimedCollections
    /\ result = None

GroupInterval(unit, duration) ==
    /\ call = NoCall
    /\ call' = [op |-> "groupInterval", unit |-> unit, duration |-> duration]
    /\ result' = groupInterval(coll, unit, duration)
    /\ UNCHANGED <<coll, UserVars>>

\* ---- reduceInterval ---------------------------------------------------------

\* the names that are reducers of ee.Reducer, as far as the model goes
Reducers == {<<"f", "i", "r", "s", "t">>, <<"m", "a", "x">>, <<"m", "e", "a", "n">>}

\* a lookup that finds every name
reducerRaisesNever(reducer) == FALSE

\* red = getattr(ee.Reducer, reducer)(): a name that ee.Reducer does not have
\* is an AttributeError
reducerRaises(reducer) == reducer \notin Reducers

\* reduce(ic): the reduction of the images of one group, tagged with the time
\* of its first and of its last image; timeList.get(0) of a group without
\* images fails when the engine evaluates it
reduceGroup(ic, red) ==
    [images |-> [i \in 1..Len(ic) |-> ic[i].id],
     reducer |-> red,
     failed |-> ic = <<>>,
     time_start |-> IF ic = <<>> THEN 0 ELSE ic[1].time,
     time_end |-> IF ic = <<>> THEN 0 ELSE ic[Len(ic)].time]

\* reduceInterval(reducer, unit, duration) for a reducer name of Reducers
reduceInterval(c, reducer, unit, duration) ==
    LET imageCollectionList == groupInterval(c, unit, duration)
    IN [k \in 1..Len(imageCollectionList) |-> reduceGroup(imageCollectionList[k], reducer)]

\* the reducer arguments: the reducers and a name that is none
ReducerArgs == Reducers \cup {<<"b", "e", "s", "t">>}

\* the call c.geetools.reduceInterval(reducer, unit, duration); the method
\* only composes a deferred computation, it sends no request
ReduceIntervalOn(c, reducer, unit, duration) ==
    /\ call = NoCall
    /\ call' = [op |-> "reduceInterval", reducer |-> reducer, unit |-> unit,
                duration |-> duration, raised |-> reducerRaises(reducer),
                requests |-> 0]
    /\ result' = IF reducerRaises(reducer) THEN None
                 ELSE reduceInterval(c, reducer, unit, duration)
    /\ UNCHANGED <<coll, UserVars>>

ReduceInterval(reducer, unit, duration) ==
    ReduceIntervalOn(coll, reducer, unit, duration)

NextGroupInterval ==
    \/ \E unit \in Units, duration \in 1..MaxDuration : GroupInterval(unit, duration)
    \/ \E reducer \in ReducerArgs, unit \in Units, duration \in 1..MaxDuration :
          ReduceInterval(reducer, unit, duration)

SpecGroupInterval == InitGroupInterval /\ [][NextGroupInterval]_vars

\* ------------------------------------------------------------------------
\* ImageCollection.medoid
\* ------------------------------------------------------------------------

\* normalised values and distances are fixed-point numbers with Precision
\* steps per unit, standing for the engine's floating-point numbers
Precision == 100

\* sumOfDistancesName = uuid.uuid4().hex
sumOfDistancesName == <<"u", "u", "i", "d">>

MinOf(vs) == CHOOSE m \in Range(vs) : \A v \in Range(vs) : m <= v

MaxOf(vs) == CHOOSE m \in Range(vs) : \A v \in Range(vs) : m >= v

\* minMax = self._obj.reduce(ee.Reducer.minMax()): per band the least and the
\* greatest value over the collection
minMax(c) ==
    [k \in 1..Len(c[1]) |->
        [name |-> c[1][k].name, min |-> MinOf(ValuesAt(c, k)), max |-> MaxOf(ValuesAt(c, k))]]

\* band.subtract(bandMin).divide(bandMax.subtract(bandMin)); the engine's
\* divide gives 0 for a division by 0
normalizeBand(image, mm, bandName) ==
    LET band == select(image, <<bandName>>)[1]
        m == mm[IndexOf([k \in 1..Len(mm) |-> mm[k].name], bandName)]
    IN [band EXCEPT !.val = IF m.max = m.min THEN 0
                             ELSE ((band.val - m.min) * Precision) \div (m.max - m.min)]

\* def normalizeBands(image): the normalised bands, renamed bandNames
normalizeBands(image, c) ==
    LET names == bandNames(c[1])
    IN rename([k \in 1..Len(names) |-> normalizeBand(image, minMax(c), names[k])], names)

normalized(c) == [i \in 1..Len(c) |-> normalizeBands(c[i], c)]

\* the square root of a fixed-point square, rounded down
ISqrt(x) == CHOOSE r \in 0..x : r * r <= x /\ x < (r + 1) * (r + 1)

\* def computeDistance(other): image.subtract(other).pow(2).reduce(sum).sqrt()
computeDistance(image, other) ==
    ISqrt(SumSeq([k \in 1..Len(image) |->
                     (image[k].val - other[k].val) * (image[k].val - other[k].val)]))

\* sumDistances = normalized.map(computeDistance).reduce(ee.Reducer.sum())
sumDistances(image, c) ==
    SumSeq([j \in 1..Len(c) |-> computeDistance(image, normalized(c)[j])])

\* def computeSumDistance(image)
computeSumDistance(image, c) ==
    addBands(image, <<Band(sumOfDistancesName, sumDistances(image, c))>>, FALSE)

\* sumDistance = normalized.map(computeSumDistance)
sumDistance(c) == [i \in 1..Len(c) |-> computeSumDistance(normalized(c)[i], c)]

\* ee.ImageCollection.qualityMosaic(band): at each pixel the image whose
\* quality band is greatest; the set of the images it can take when several
\* share the greatest value
qualityMosaic(c, quality) ==
    {c[i] : i \in {j \in 1..Len(c) :
        \A k \in 1..Len(c) :
            select(c[j], <<quality>>)[1].val >= select(c[k], <<quality>>)[1].val}}

\* medoid(): the images it can return
medoid(c) ==
    {select(m, bandNames(c[1])) : m \in qualityMosaic(sumDistance(c), sumOfDistancesName)}

InitMedoid ==
    /\ UserIdle
    /\ call = NoCall
    /\ coll \in Collections
    /\ result = None

Medoid ==
    /\ call = NoCall
    /\ call' = [op |-> "medoid"]
    /\ result' \in medoid(coll)
    /\ UNCHANGED <<coll, UserVars>>

NextMedoid == Medoid

SpecMedoid == InitMedoid /\ [][NextMedoid]_vars

\* ------------------------------------------------------------------------
\* Strings, as sequences of one-character strings
\* ------------------------------------------------------------------------

\* the characters of the modelled strings, in code-point order
Alphabet == <<"-", "0", "1", "2", "3", "4", "5", "6", "7", "8", "9",
              "A", "B", "T", "_", "a", "b">>

Code(ch) == CHOOSE k \in 1..Len(Alphabet) : Alphabet[k] = ch

\* s sorts before t
RECURSIVE StrLess(_, _)
StrLess(s, t) ==
    IF t = <<>> THEN FALSE
    ELSE IF s = <<>> THEN TRUE
    ELSE IF Head(s) # Head(t) THEN Code(Head(s)) < Code(Head(t))
    ELSE StrLess(Tail(s), Tail(t))

\* the strings of a set in sorted order
RECURSIVE SortStrings(_)
SortStrings(S) ==
    IF S = {} THEN <<>>
    ELSE LET m == CHOOSE x \in S : \A y \in S \ {x} : StrLess(x, y)
         IN <<m>> \o SortStrings(S \ {m})

\* ee.Filter.stringStartsWith
StartsWith(s, prefix) ==
    Len(prefix) <= Len(s) /\ SubSeq(s, 1, Len(prefix)) = prefix

\* places where the pattern occurs in s
Matches(s, pattern) ==
    {i \in 1..(Len(s) - Len(pattern) + 1) : SubSeq(s, i, i + Len(pattern) - 1) = pattern}

\* ee.String.replace(pattern, replacement): the first match is replaced (the
\* pattern is a regular expression; the modelled patterns hold no regex
\* operator, so a match is an occurrence)
replace(s, pattern, replacement) ==
    IF Matches(s, pattern) = {} THEN s
    ELSE LET i == CHOOSE m \in Matches(s, pattern) : \A n \in Matches(s, pattern) : m <= n
         IN SubSeq(s, 1, i - 1) \o replacement \o SubSeq(s, i + Len(pattern), Len(s))

\* ee.String.slice(start)
slice(s, start) == SubSeq(s, start + 1, Len(s))

DigitChar(d) == Alphabet[d + 2]

\* ee.Number(p).format("%s") of a natural number: its decimal digits
RECURSIVE formatNumber(_)
formatNumber(n) ==
    IF n < 10 THEN <<DigitChar(n)>>
    ELSE formatNumber(n \div 10) \o <<DigitChar(n % 10)>>

TwoDigits(n) == <<DigitChar(n \div 10), DigitChar(n % 10)>>

\* ee.Date(p).format(EE_DATE_FORMAT), "YYYY-MM-dd'T'HH-mm-ss", of a time in
\* milliseconds that lies in January 1970
formatDate(ms) ==
    LET secs == ms \div 1000
        day == secs \div (24 * 3600)
        hour == (secs % (24 * 3600)) \div 3600
        minute == (secs % 3600) \div 60
    IN <<"1", "9", "7", "0", "-", "0", "1", "-">> \o TwoDigits(day + 1) \o <<"T">>
         \o TwoDigits(hour) \o <<"-">> \o TwoDigits(minute) \o <<"-">> \o TwoDigits(secs % 60)

\* ------------------------------------------------------------------------
\* Dictionaries, as functions from key strings
\* ------------------------------------------------------------------------

\* ee.Dictionary.keys(): sorted
keys(d) == SortStrings(DOMAIN d)

\* ee.Dictionary.fromLists(keys, values): a key given twice keeps its last value
fromLists(ks, vs) ==
    [k \in Range(ks) |->
        vs[CHOOSE i \in 1..Len(ks) : ks[i] = k /\ \A j \in (i + 1)..Len(ks) : ks[j] # k]]

\* ------------------------------------------------------------------------
\* ImageCollection.reduceRegion
\* ------------------------------------------------------------------------

\* an image with its identifier property: [prop, bands]

\* ee.List.distinct(): first occurrences, in order
RECURSIVE distinct(_)
distinct(l) ==
    IF l = <<>> THEN <<>>
    ELSE LET front == distinct(SubSeq(l, 1, Len(l) - 1))
             x == l[Len(l)]
         IN IF x \in Range(front) THEN front ELSE Append(front, x)

\* ee.List.flatten()
RECURSIVE flatten(_)
flatten(l) == IF l = <<>> THEN <<>> ELSE Head(l) \o flatten(Tail(l))

\* reducer names
First == <<"f", "i", "r", "s", "t">>

Max == <<"m", "a", "x">>

\* ic.reduce(red) at the one pixel of the images: per band of the first
\* image the reduction of the values, named <band>_<reducer>
reduceImages(images, red) ==
    [k \in 1..Len(images[1]) |->
        LET vs == ValuesAt(images, k)
        IN [name |-> images[1][k].name \o <<"_">> \o red,
            val |-> CASE red = First -> vs[1]
                      [] red = Max -> MaxOf(vs),
            mask |-> TRUE]]

\* ic.toBands(): the bands of all images side by side, named
\* <system:index>_<band> with the position as index
toBands(images) ==
    flatten([i \in 1..Len(images) |->
        [k \in 1..Len(images[i]) |->
            [images[i][k] EXCEPT !.name = formatNumber(i - 1) \o <<"_">> \o images[i][k].name]]])

\* ee.Image.reduceRegion(reducer, geometry) over the one pixel of the region:
\* the dictionary band name -> reduced value
imageReduceRegion(image, reducer) ==
    [n \in Range(bandNames(image)) |->
        LET v == image[IndexOf(bandNames(image), n)].val
        IN CASE reducer = "mean" -> v
             [] reducer = "count" -> 1]

\* the identifier types with a format, and one without
IdTypes == {"String", "Number", "Date", "List"}

Supported(idPropertyType) == idPropertyType \in {"String", "Number", "Date"}

\* the if/elif on idPropertyType
formatProperty(p, idPropertyType) ==
    CASE idPropertyType = "String" -> p
      [] idPropertyType = "Number" -> formatNumber(p)
      [] idPropertyType = "Date" -> formatDate(p)

\* bandNames = propertyList.map(lambda p: bands.map(lambda b: p.cat("_").cat(b))).flatten()
stackedNames(propertyList, bands) ==
    flatten([i \in 1..Len(propertyList) |->
        [k \in 1..Len(bands) |-> propertyList[i] \o <<"_">> \o bands[k]]])

\* keys.map(lambda k: ee.String(k).replace(p, "").slice(1))
unstackKey(k, p) == slice(replace(k, p, <<>>), 1)

\* def getProp(p)
getProp(reduced, p) ==
    LET ks == SelectSeq(keys(reduced), LAMBDA k : StartsWith(k, p))
        values == [i \in 1..Len(ks) |-> reduced[ks[i]]]
    IN fromLists([i \in 1..Len(ks) |-> unstackKey(ks[i], p)], values)

\* the pre-mosaicked collection: ee.ImageCollection(propertyList.map(reduce))
mosaicked(c, pred) ==
    LET propertyList == distinct([i \in 1..Len(c) |-> c[i].prop])
        bandName == bandNames(c[1].bands)
    IN [k \in 1..Len(propertyList) |->
           LET same == SelectSeq(c, LAMBDA i : i.prop = propertyList[k])
           IN rename(reduceImages([i \in 1..Len(same) |-> same[i].bands], pred), bandName)]

\* reduceRegion(reducer, geometry, idProperty, idPropertyType, propertyReducer)
\* for a supported idPropertyType; every image of the modelled collections
\* lies over the geometry, so that filterBounds keeps them all
reduceRegion(c, reducer, idPropertyType, pred) ==
    LET ic == mosaicked(c, pred)
        propertyList == [k \in 1..Len(ic) |->
            formatProperty(distinct([i \in 1..Len(c) |-> c[i].prop])[k], idPropertyType)]
        bands == bandNames(ic[1])
        image == rename(toBands(ic), stackedNames(propertyList, bands))
        reduced == imageReduceRegion(image, reducer)
    IN fromLists(propertyList, [k \in 1..Len(propertyList) |-> getProp(reduced, propertyList[k])])

\* ---- the reduceRegion specification ----------------------------------------

b_2 == <<"b", "_", "2">>

\* identifiers of the modelled collections, per type
StringIds == {<<"a">>, <<"a", "_", "b">>, <<"A", "1">>}

NumberIds == {1, 2, 10}

DateIds == {0, 1000, 24 * 3600 * 1000}

IdsOf(idPropertyType) ==
    CASE idPropertyType = "String" -> StringIds
      [] idPropertyType = "Number" -> NumberIds
      [] idPropertyType = "Date" -> DateIds
      [] OTHER -> NumberIds

\* whether the identifiers of a type are stored as strings or as numbers
KindOf(idPropertyType) == IF idPropertyType = "String" THEN "string" ELSE "number"

\* the images of a type: the identifier and its kind, bands B1 and b_2
RegionImages(idPropertyType) ==
    {[kind |-> KindOf(idPropertyType), prop |-> p,
      bands |-> <<Band(B1, v), Band(b_2, v + 1)>>] :
        p \in IdsOf(idPropertyType), v \in 0..MaxVal}

InitReduceRegion ==
    /\ UserIdle
    /\ call = NoCall
    /\ \E t \in IdTypes : coll \in NonEmptySeqsUpTo(RegionImages(t), MaxImages)
    /\ result = None

\* the identifiers of the collection are values of the type
TypeFits(c, idPropertyType) ==
    \A i \in 1..Len(c) :
        c[i].kind = KindOf(idPropertyType) /\ c[i].prop \in IdsOf(idPropertyType)

\* the call reduceRegion(reducer, geometry, idPropertyType=..., propertyReducer=pred);
\* an unsupported idPropertyType raises ValueError
ReduceRegionOn(c, reducer, idPropertyType, pred) ==
    /\ call = NoCall
    /\ TypeFits(c, idPropertyType)
    /\ call' = [op |-> "reduceRegion", reducer |-> reducer,
                idPropertyType |-> idPropertyType, propertyReducer |-> pred,
                raised |-> ~Supported(idPropertyType), requests |-> 0]
    /\ result' = IF Supported(idPropertyType)
                 THEN reduceRegion(c, reducer, idPropertyType, pred)
                 ELSE None
    /\ UNCHANGED <<coll, UserVars>>

ReduceRegion(reducer, idPropertyType, pred) ==
    ReduceRegionOn(coll, reducer, idPropertyType, pred)

NextReduceRegion ==
    \E reducer \in {"mean", "count"}, t \in IdTypes, pred \in {First, Max} :
        ReduceRegion(reducer, t, pred)

SpecReduceRegion == InitReduceRegion /\ [][NextReduceRegion]_vars

\* ------------------------------------------------------------------------
\* Array: full and set (src/geetools/Array/__init__.py)
\* ------------------------------------------------------------------------
\* A number is held in tenths (10 is 1, -25 is -2.5) so that the integer casts
\* of the code have something to truncate; an array is the sequence of its
\* rows, as toList() gives it.

\* the side of the arrays that exist before a call
MaxSide == 2

Tenths == 10

\* ee.Number(n).toInt(): the integer part, truncated towards zero
toInt(n) == IF n >= 0 THEN n \div Tenths ELSE -((-n) \div Tenths)

\* ee.List.repeat(value, count)
repeat(value, count) == [i \in 1..count |-> value]

\* the 1-based position of the 0-based index i of a list; a negative index
\* counts backwards from the end of the list
Position(list, i) == IF i < 0 THEN Len(list) + i + 1 ELSE i + 1

InRange(list, i) == Position(list, i) \in 1..Len(list)

\* ee.List.get(index)
listGet(list, i) == list[Position(list, i)]

\* ee.List.set(index, element)
listSet(list, i, element) == [list EXCEPT ![Position(list, i)] = element]

\* a full() that takes the width for the number of rows
fullTransposed(width, height, value) ==
    repeat(repeat(value, toInt(height)), toInt(width))

\* width, height = ee.Number(width).toInt(), ee.Number(height).toInt()
\* ee.Array(ee.List.repeat(ee.List.repeat(value, width), height))
full(width, height, value) ==
    repeat(repeat(value, toInt(width)), toInt(height))

\* a set() that takes x for the row and y for the column
setTransposed(obj, x, y, value) ==
    LET xPos == toInt(x)
        yPos == toInt(y)
        row == listSet(listGet(obj, xPos), yPos, value)
    IN listSet(obj, xPos, row)

\* the list accesses of set() that the engine rejects
setRaises(obj, x, y) ==
    \/ ~InRange(obj, toInt(y))
    \/ ~InRange(listGet(obj, toInt(y)), toInt(x))

\* xPos, yPos = ee.Number(x).toInt(), ee.Number(y).toInt()
\* row = ee.List(self._obj.toList().get(yPos)).set(xPos, ee.Number(value))
\* ee.Array(self._obj.toList().set(yPos, row))
set(obj, x, y, value) ==
    LET xPos == toInt(x)
        yPos == toInt(y)
        row == listSet(listGet(obj, yPos), xPos, value)
    IN listSet(obj, yPos, row)

\* ---- the Array specification ------------------------------------------------

\* the values of the cells of an array that exists before a call
CellValues == {0, 10}

\* the values passed to full and set: 0, 1 and -2.5
ArrayValues == {0, 10, -25}

Arrays == UNION {[1..h -> [1..w -> CellValues]] : w \in 1..MaxSide, h \in 1..MaxSide}

\* ee.Array.geetools.full(3, 3, 1) of the docstring
DocArray == full(30, 30, 10)

\* width and height arguments: 1, 2, .. and the non-integer 2.5
SizeArgs == {Tenths * k : k \in 1..(MaxSide + 1)} \cup {25}

\* x and y arguments: -1, 0, 1, .. and the non-integer 0.5
IndexArgs == {Tenths * k : k \in -1..MaxSide} \cup {5}

InitArray ==
    /\ coll \in Arrays \cup {DocArray}
    /\ result = None
    /\ call = NoCall
    /\ UserIdle

\* the call ee.Array.geetools.full(width, height, value)
ArrayFull(width, height, value) ==
    /\ call = NoCall
    /\ result' = full(width, height, value)
    /\ call' = [op |-> "full", width |-> width, height |-> height,
                value |-> value, raised |-> FALSE]
    /\ UNCHANGED <<coll, UserVars>>

\* the call coll.geetools.set(x, y, value); the array it is called on is not
\* changed
ArraySet(x, y, value) ==
    /\ call = NoCall
    /\ call' = [op |-> "set", x |-> x, y |-> y, value |-> value,
                raised |-> setRaises(coll, x, y)]
    /\ result' = IF setRaises(coll, x, y) THEN None ELSE set(coll, x, y, value)
    /\ UNCHANGED <<coll, UserVars>>

NextArray ==
    \/ \E w \in SizeArgs, h \in SizeArgs, v \in ArrayValues : ArrayFull(w, h, v)
    \/ \E x \in IndexArgs, y \in IndexArgs, v \in ArrayValues : ArraySet(x, y, v)

SpecArray == InitArray /\ [][NextArray]_vars

\* ------------------------------------------------------------------------
\* containsBandNames, containsAllBands, containsAnyBands
\* ------------------------------------------------------------------------

B3 == <<"B", "3">>

\* filter = {"ALL": "Filter.and", "ANY": "Filter.or"}[filter]; any other key
\* is a KeyError of the dictionary lookup
FilterNames == {"ALL", "ANY"}

filterFunction(filter) == IF filter = "ALL" THEN "Filter.and" ELSE "Filter.or"

\* a lookup that finds every key
filterRaisesNever(filter) == FALSE

filterRaises(filter) == filter \notin FilterNames

\* ic = self._obj.map(lambda i: i.set(band_name, i.bandNames()))
withBandNames(c) == [i \in 1..Len(c) |-> [image |-> c[i], band_name |-> bandNames(c[i])]]

\* a listContains that only looks at the first element of the list
listContainsFirst(list, b) == list # <<>> /\ list[1] = b

\* ee.Filter.listContains(band_name, b)
listContains(list, b) == b \in Range(list)

\* filterCombination = ApiFunction.call_(filter, filterList), applied to one
\* element of the collection
filterCombination(function, names, element) ==
    IF function = "Filter.and"
    THEN \A k \in 1..Len(names) : listContains(element.band_name, names[k])
    ELSE \E k \in 1..Len(names) : listContains(element.band_name, names[k])

\* ImageCollection.filter: the elements that pass, in their order
RECURSIVE filterCollection(_, _, _)
filterCollection(ic, function, names) ==
    IF ic = <<>> THEN <<>>
    ELSE IF filterCombination(function, names, Head(ic))
         THEN <<Head(ic)>> \o filterCollection(Tail(ic), function, names)
         ELSE filterCollection(Tail(ic), function, names)

\* i.multiply(1).copyProperties(i, exclude=[band_name])
withoutBandNames(element) ==
    [k \in 1..Len(element.image) |->
        [element.image[k] EXCEPT !.val = element.image[k].val * 1]]

\* containsBandNames(bandNames, filter) for a filter of FilterNames
containsBandNames(c, names, filter) ==
    LET ic == filterCollection(withBandNames(c), filterFunction(filter), names)
    IN [i \in 1..Len(ic) |-> withoutBandNames(ic[i])]

\* return self.containsBandNames(bandNames, "ALL")
containsAllBands(c, names) == containsBandNames(c, names, "ALL")

\* return self.containsBandNames(bandNames, "ANY")
containsAnyBands(c, names) == containsBandNames(c, names, "ANY")

\* ---- the containsBands specification ----------------------------------------

\* the band lists an image can have
BandLists == {<<B1>>, <<B2>>, <<B1, B2>>, <<B2, B1>>, <<B3>>}

\* collections whose i-th image has the value i in every band
BandCollections ==
    UNION {{[i \in 1..n |-> [k \in 1..Len(bl[i]) |-> Band(bl[i][k], i)]] :
               bl \in [1..n -> BandLists]} : n \in 1..MaxImages}

\* the bandNames arguments
NameLists == {<<B1>>, <<B2>>, <<B1, B2>>, <<B3, B1>>}

\* the filter arguments: the two supported ones and one that is not
FilterArgs == FilterNames \cup {"NONE"}

InitContainsBands ==
    /\ UserIdle
    /\ call = NoCall
    /\ coll \in BandCollections
    /\ result = None

\* the call c.geetools.containsBandNames(names, filter); the method only
\* composes a deferred computation, it sends no request
ContainsBandNamesOn(c, names, filter) ==
    /\ call = NoCall
    /\ call' = [op |-> "containsBandNames", names |-> names, filter |-> filter,
                raised |-> filterRaises(filter), requests |-> 0]
    /\ result' = IF filterRaises(filter) THEN None
                 ELSE containsBandNames(c, names, filter)
    /\ UNCHANGED <<coll, UserVars>>

ContainsBandNames(names, filter) == ContainsBandNamesOn(coll, names, filter)

\* the call coll.geetools.containsAllBands(names)
ContainsAllBands(names) ==
    /\ call = NoCall
    /\ call' = [op |-> "containsAllBands", names |-> names, raised |-> FALSE,
                requests |-> 0]
    /\ result' = containsAllBands(coll, names)
    /\ UNCHANGED <<coll, UserVars>>

\* the call coll.geetools.containsAnyBands(names)
ContainsAnyBands(names) ==
    /\ call = NoCall
    /\ call' = [op |-> "containsAnyBands", names |-> names, raised |-> FALSE,
                requests |-> 0]
    /\ result' = containsAnyBands(coll, names)
    /\ UNCHANGED <<coll, UserVars>>

NextContainsBands ==
    \/ \E n \in NameLists, f \in FilterArgs : ContainsBandNames(n, f)
    \/ \E n \in NameLists : ContainsAllBands(n)
    \/ \E n \in NameLists : ContainsAnyBands(n)

SpecContainsBands == InitContainsBands /\ [][NextContainsBands]_vars

\* ------------------------------------------------------------------------
\* ImageCollection.integral
\* ------------------------------------------------------------------------
\* An image is [time, bands]; a number that the code divides is an exact
\* fraction [n, d] in lowest terms with d > 0.

\* the ticks of 500 ms at which an image of a series can be taken
MaxStep == 3

RECURSIVE GCD(_, _)
GCD(a, b) == IF b = 0 THEN a ELSE GCD(b, a % b)

Abs(a) == IF a < 0 THEN -a ELSE a

\* ee.Number.divide: the quotient, 0 for a division by 0
Fraction(n, d) ==
    IF d = 0 \/ n = 0 THEN [n |-> 0, d |-> 1]
    ELSE LET g == GCD(Abs(n), Abs(d))
             sign == IF d < 0 THEN -1 ELSE 1
         IN [n |-> sign * (n \div g), d |-> sign * (d \div g)]

\* ee.Image.multiply of an integer image by a number
multiply(k, f) == Fraction(k * f.n, f.d)

\* ee.Image.divide by an integer constant
divide(f, k) ==
    LET g == GCD(Abs(f.n), Abs(k))
    IN Fraction(f.n \div g, f.d * (k \div g))

\* ee.Image.add of two images
add(f, g) ==
    LET common == GCD(f.d, g.d)
        lcm == (f.d \div common) * g.d
    IN Fraction(f.n * (lcm \div f.d) + g.n * (lcm \div g.d), lcm)

\* self._obj.aggregate_min(time), self._obj.aggregate_max(time)
aggregate_min(c) == MinOf([i \in 1..Len(c) |-> c[i].time])

aggregate_max(c) == MaxOf([i \in 1..Len(c) |-> c[i].time])

\* the units of the intervals dictionary whose length in milliseconds is
\* within the integers of the model checker (year and month are not)
IntegralUnits == {"day", "hour", "minute", "second", ""}

\* interval = intervals[unit]
intervals(unit, minTime, maxTime) ==
    CASE unit = "day" -> 1000 * 60 * 60 * 24
      [] unit = "hour" -> 1000 * 60 * 60
      [] unit = "minute" -> 1000 * 60
      [] unit = "second" -> 1000
      [] unit = "" -> maxTime - minTime

\* zero = ee.Image.constant(0).copyProperties(first, first.propertyNames())
zero(c) == [val |-> 0, time |-> c[1].time]

\* s = ee.Image(zero).rename("integral").set("last", zero)
initialSum(c) == [val |-> Fraction(0, 1), last |-> zero(c)]

\* a step that takes the rectangle under the current image
computeIntegralRectangle(image, integral, band, interval) ==
    LET img == [val |-> select(image.bands, <<band>>)[1].val, time |-> image.time]
        last == integral.last
        locInterval == Fraction(img.time - last.time, interval)
        locIntegral == divide(multiply(img.val + img.val, locInterval), 2)
    IN [val |-> add(integral.val, locIntegral), last |-> img]

\* computeIntegral(image, integral)
computeIntegral(image, integral, band, interval) ==
    LET img == [val |-> select(image.bands, <<band>>)[1].val, time |-> image.time]
        last == integral.last
        locMinTime == last.time
        locMaxTime == img.time
        locInterval == Fraction(locMaxTime - locMinTime, interval)
        locIntegral == divide(multiply(last.val + img.val, locInterval), 2)
    IN [val |-> add(integral.val, locIntegral), last |-> img]

\* self._obj.iterate(computeIntegral, s)
RECURSIVE iterateIntegral(_, _, _, _)
iterateIntegral(c, s, band, interval) ==
    IF c = <<>> THEN s
    ELSE iterateIntegral(Tail(c), computeIntegral(Head(c), s, band, interval),
                         band, interval)

\* integral(band, time, unit) for a unit of IntegralUnits
integral(c, band, unit) ==
    LET minTime == aggregate_min(c)
        maxTime == aggregate_max(c)
        interval == intervals(unit, minTime, maxTime)
    IN iterateIntegral(c, initialSum(c), band, interval).val

\* ---- the integral specification ---------------------------------------------

\* the values of the integrated band
SeriesValues == {1, 3}

SeriesTimes == {500 * k : k \in 0..MaxStep}

\* an image with the band B2 before the band B1
SeriesImages ==
    {[time |-> t, bands |-> <<Band(B2, 2), Band(B1, v)>>] :
        t \in SeriesTimes, v \in SeriesValues}

Series == NonEmptySeqsUpTo(SeriesImages, MaxImages)

\* the unit arguments: the units of the dictionary and one that is no key
UnitArgs == IntegralUnits \cup {"week"}

InitIntegral ==
    /\ UserIdle
    /\ call = NoCall
    /\ coll \in Series
    /\ result = None

\* the call coll.geetools.integral(band, unit=unit); a unit that is no key of
\* the intervals dictionary is a KeyError
Integral(band, unit) ==
    /\ call = NoCall
    /\ call' = [op |-> "integral", band |-> band, unit |-> unit,
                raised |-> unit \notin IntegralUnits, requests |-> 0]
    /\ result' = IF unit \in IntegralUnits THEN integral(coll, band, unit) ELSE None
    /\ UNCHANGED <<coll, UserVars>>

NextIntegral == \E band \in {B1, B2}, unit \in UnitArgs : Integral(band, unit)

SpecIntegral == InitIntegral /\ [][NextIntegral]_vars

\* ------------------------------------------------------------------------
\* A caller that holds three collections and calls reduceRegion,
\* containsBandNames and reduceInterval with supported and unsupported options
\* ------------------------------------------------------------------------

InitOptions ==
    /\ UserIdle
    /\ call = NoCall
    /\ result = None
    /\ \E t \in IdTypes :
          coll \in [region : NonEmptySeqsUpTo(RegionImages(t), 1),
                    bands : {c \in BandCollections : Len(c) = 1},
                    timed : {c \in TimedCollections : Len(c) = 2 /\ c[1].time = 0}]

NextOptions ==
    \/ \E reducer \in {"mean", "count"}, t \in IdTypes, pred \in {First, Max} :
          ReduceRegionOn(coll.region, reducer, t, pred)
    \/ \E n \in NameLists, f \in FilterArgs : ContainsBandNamesOn(coll.bands, n, f)
    \/ \E reducer \in ReducerArgs, unit \in Units, duration \in 1..MaxDuration :
          ReduceIntervalOn(coll.timed, reducer, unit, duration)

SpecOptions == InitOptions /\ [][NextOptions]_vars

\* ------------------------------------------------------------------------
\* ImageCollection.getSTAC
\* ------------------------------------------------------------------------
\* The collection is [assetId, web]: the asset id as the sequence of its
\* segments and the documents of the catalog by URL. A catalog document is the
\* sequence of its links, each [title, href]; <<>> is a link without title.

\* the number of links of a catalog document
MaxLinks == 2

\* catalog = "https://earthengine-stac.storage.googleapis.com/catalog/catalog.json"
catalog == "catalog.json"

\* project = assetId.split("/")[0]
project(assetId) == <<assetId[1]>>

\* a title made of the last segment of the asset id only
collectionLastSegment(assetId) == <<assetId[Len(assetId)]>>

\* collection = "_".join(assetId.split("/"))
RECURSIVE collection(_)
collection(assetId) ==
    IF Len(assetId) = 1 THEN assetId
    ELSE <<Head(assetId), "_">> \o collection(Tail(assetId))

\* next((i["href"] for i in links if i.get("title") == title), None)
nextHref(links, title) ==
    IF \E k \in 1..Len(links) : links[k].title = title
    THEN links[CHOOSE k \in 1..Len(links) :
                   /\ links[k].title = title
                   /\ \A j \in 1..(k - 1) : links[j].title # title].href
    ELSE None

\* getSTAC(): the requests it sends, whether it raises and with which names,
\* and the document it returns
getSTAC(assetId, web) ==
    LET project_catalog == nextHref(web[catalog], project(assetId))
        collection_stac == nextHref(web[project_catalog], collection(assetId))
    IN IF project_catalog = None
       THEN [raised |-> TRUE, message |-> <<"Project", project(assetId)>>,
             requests |-> <<catalog>>, returned |-> None]
       ELSE IF collection_stac = None
       THEN [raised |-> TRUE,
             message |-> <<"Collection", collection(assetId), project(assetId)>>,
             requests |-> <<catalog, project_catalog>>, returned |-> None]
       ELSE [raised |-> FALSE, message |-> <<>>,
             requests |-> <<catalog, project_catalog, collection_stac>>,
             returned |-> collection_stac]

\* ---- the getSTAC specification ----------------------------------------------

AssetIds == {<<"P", "a">>, <<"P", "a", "b">>, <<"Q", "a">>}

ProjectUrls == {"p1.json", "p2.json"}

CollectionUrls == {"c1.json", "c2.json"}

RootLinks == [title : {<<"P">>, <<>>}, href : ProjectUrls]

ProjectLinks == [title : {<<"P", "_", "a">>, <<"P", "_", "a", "_", "b">>, <<"a">>},
                 href : CollectionUrls]

LinkLists(S) == UNION {[1..n -> S] : n \in 0..MaxLinks}

InitGetSTAC ==
    /\ UserIdle
    /\ call = NoCall
    /\ result = None
    /\ \E id \in AssetIds, root \in LinkLists(RootLinks), first \in LinkLists(ProjectLinks) :
          coll = [assetId |-> id,
                  web |-> [u \in {catalog} \cup ProjectUrls |->
                              IF u = catalog THEN root
                              ELSE IF u = "p1.json" THEN first
                              ELSE <<[title |-> <<"P", "_", "a">>, href |-> "c2.json"]>>]]

\* the call coll.geetools.getSTAC()
GetSTAC ==
    /\ call = NoCall
    /\ LET r == getSTAC(coll.assetId, coll.web)
       IN /\ call' = [op |-> "getSTAC", raised |-> r.raised, message |-> r.message,
                      requests |-> r.requests]
          /\ result' = r.returned
    /\ UNCHANGED <<coll, UserVars>>

NextGetSTAC == GetSTAC

SpecGetSTAC == InitGetSTAC /\ [][NextGetSTAC]_vars

\* ------------------------------------------------------------------------
\* ImageCollection.doyByBands and ImageCollection.doyByRegions
\* ------------------------------------------------------------------------

\* an image with its date property: [date, bands]; the date is counted in
\* hours since 1970-01-01T00:00; a region is [label, shift], the images
\* reading val + shift over it

\* longest collection handed to the day-of-year reductions
MaxDoyImages == 2

\* first day of the years 1970..1973, in days since 1970-01-01; 1972 is a
\* leap year
YearStarts == <<0, 365, 730, 1096>>

\* ee.Date(i.get(dateProperty)).getRelative("day", "year"): the 0-based day
\* within the year of the date
getRelative(date) ==
    LET day == date \div 24
        y == CHOOSE k \in 1..Len(YearStarts) :
                /\ YearStarts[k] <= day
                /\ k = Len(YearStarts) \/ day < YearStarts[k + 1]
    IN day - YearStarts[y]

\* def doy_tag(i)
doy_tag(i) == [date |-> i.date, bands |-> i.bands, doy |-> getRelative(i.date)]

\* a day list that stops at day 365 of the year
dayListCommonYear == [k \in 1..365 |-> k - 1]

\* dayList = ee.List.sequence(0, 366)
dayList == [k \in 1..367 |-> k - 1]

\* def filter_doy(d): the images of the day, with their number and the day
filter_doy(ic, d) ==
    LET c == SelectSeq(ic, LAMBDA i : i.doy = d)
    IN [images |-> c, size |-> Len(c), doy |-> d]

\* icList.map(timeReduce) followed by filter(ee.Filter.gt(size_metadata, 0)):
\* the groups that hold an image, in day order; the filter reads the metadata
\* only, so that the image of an empty group is never computed
nonEmptyGroups(ic) ==
    SelectSeq([k \in 1..Len(dayList) |-> filter_doy(ic, dayList[k])],
              LAMBDA c : c.size > 0)

\* def timeReduce(c): c.reduce(timeRed).rename(names); rename fails when the
\* number of names is not the number of bands
timeReduce(c, timeRed, names) ==
    LET i == reduceImages([k \in 1..c.size |-> c.images[k].bands], timeRed)
        failed == Len(names) # Len(i)
    IN [bands |-> IF failed THEN <<>> ELSE rename(i, names),
        failed |-> failed, doy |-> c.doy]

\* ic.aggregate_array(doy_metadata).map(lambda d: ee.Number(d).int().format())
doyStrings(ic) == [k \in 1..Len(ic) |-> formatNumber(ic[k].doy)]

\* doyByBands(region, spatialReducer, timeReducer, bands=bands, labels=labels)
\* on a non-empty collection: [failed, value]. The collection of line 1238,
\* selected and renamed, is replaced by self._obj.map(doy_tag) before it is
\* used, so that the groups hold every band of the images
doyByBands(c, spatialReducer, timeReducer, bands, labels) ==
    LET bandList == IF Len(bands) > 0 THEN bands ELSE bandNames(c[1].bands)
        labelList == IF Len(labels) > 0 THEN labels ELSE bandList
        tagged == [k \in 1..Len(c) |-> doy_tag(c[k])]
        groups == nonEmptyGroups(tagged)
        ic == [k \in 1..Len(groups) |-> timeReduce(groups[k], timeReducer, labelList)]
        doyList == doyStrings(ic)
        spatialReduce(label) ==
            LET image == rename(toBands([k \in 1..Len(ic) |-> select(ic[k].bands, <<label>>)]),
                                doyList)
            IN imageReduceRegion(image, spatialReducer)
    IN IF \E k \in 1..Len(ic) : ic[k].failed
       THEN [failed |-> TRUE, value |-> None]
       ELSE [failed |-> FALSE,
             value |-> fromLists(labelList,
                           [k \in 1..Len(labelList) |-> spatialReduce(labelList[k])])]

\* the image as it reads over a region
over(image, region) == [k \in 1..Len(image) |-> [image[k] EXCEPT !.val = @ + region.shift]]

\* doyByRegions(band, regions, label, spatialReducer, timeReducer) on a
\* non-empty collection: [failed, value]
doyByRegions(c, band, regions, spatialReducer, timeReducer) ==
    LET tagged == [k \in 1..Len(c) |->
                      doy_tag([date |-> c[k].date, bands |-> select(c[k].bands, <<band>>)])]
        groups == nonEmptyGroups(tagged)
        ic == [k \in 1..Len(groups) |-> timeReduce(groups[k], timeReducer, <<band>>)]
        doyList == doyStrings(ic)
        image == rename(toBands([k \in 1..Len(ic) |-> ic[k].bands]), doyList)
        values == [r \in 1..Len(regions) |->
                      imageReduceRegion(over(image, regions[r]), spatialReducer)]
        labels == [r \in 1..Len(regions) |-> regions[r].label]
    IN [failed |-> FALSE, value |-> fromLists(labels, values)]

\* dates of the modelled images: 1970-01-01 at 0 h and at 12 h, 1970-01-02,
\* 1971-01-01, and 1972-12-31, the day 365 of a leap year
DoyDates == {0, 12, 24, 365 * 24, (730 + 365) * 24}

\* the values of band B1; band B2 reads 5 more
DoyValues == {0, 1}

DoyImages == {[date |-> d, bands |-> Image2(v, v + 5)] : d \in DoyDates, v \in DoyValues}

DoyCollections == NonEmptySeqsUpTo(DoyImages, MaxDoyImages)

\* labels of the bands and of the regions
LabelX == <<"x">>

LabelY == <<"y">>

\* the (bands, labels) arguments: the defaults, every band in order, the
\* bands reordered, and each band alone
BandLabelArgs ==
    {<< <<>>, <<>> >>, << <<B1, B2>>, <<LabelX, LabelY>> >>,
     << <<B2, B1>>, <<LabelY, LabelX>> >>, << <<B1>>, <<LabelX>> >>,
     << <<B2>>, <<LabelY>> >>}

\* one region, two regions, and two regions under one label
RegionArgs ==
    {<<[label |-> LabelX, shift |-> 0]>>,
     <<[label |-> LabelX, shift |-> 0], [label |-> LabelY, shift |-> 2]>>,
     <<[label |-> LabelX, shift |-> 0], [label |-> LabelX, shift |-> 2]>>}

InitDoy ==
    /\ UserIdle
    /\ call = NoCall
    /\ coll \in DoyCollections
    /\ result = None

\* the call coll.geetools.doyByBands(region, timeReducer=..., bands=..., labels=...)
\* followed by getInfo()
DoyByBands(timeReducer, bands, labels) ==
    /\ call = NoCall
    /\ LET r == doyByBands(coll, "mean", timeReducer, bands, labels)
       IN /\ call' = [op |-> "doyByBands", timeReducer |-> timeReducer, bands |-> bands,
                      labels |-> labels, raised |-> FALSE, failed |-> r.failed]
          /\ result' = r.value
    /\ UNCHANGED <<coll, UserVars>>

\* the call coll.geetools.doyByRegions(band, regions, label, timeReducer=...)
\* followed by getInfo()
DoyByRegions(timeReducer, band, regions) ==
    /\ call = NoCall
    /\ LET r == doyByRegions(coll, band, regions, "mean", timeReducer)
       IN /\ call' = [op |-> "doyByRegions", timeReducer |-> timeReducer, band |-> band,
                      regions |-> regions, raised |-> FALSE, failed |-> r.failed]
          /\ result' = r.value
    /\ UNCHANGED <<coll, UserVars>>

NextDoy ==
    \/ \E timeReducer \in {First, Max}, a \in BandLabelArgs : DoyByBands(timeReducer, a[1], a[2])
    \/ \E timeReducer \in {First, Max}, band \in {B1, B2}, regions \in RegionArgs :
          DoyByRegions(timeReducer, band, regions)

SpecDoy == InitDoy /\ [][NextDoy]_vars

\* ---- claims about outliers -------------------------------------------------

\* the value of the band called b of an image
ValueOf(i, b) == (CHOOSE x \in Range(i) : x.name = b).val

\* the values of the band called b over the collection
SeriesOf(c, b) == [i \in 1..Len(c) |-> ValueOf(c[i], b)]

\* the count, the sum and the sum of squares of a series
Totals(vs) ==
    [n |-> Len(vs), S |-> SumSeq(vs), SS |-> SumSeq([i \in 1..Len(vs) |-> vs[i] * vs[i]])]

\* value > mean + sigma*stddev or value < mean - sigma*stddev for the population
\* standard deviation of a series with totals t, as
\* (n*v - S)^2 > sigma^2 * (n*SS - S^2)
IsOutlier(t, v, sigma) ==
    (t.n * v - t.S) * (t.n * v - t.S) > sigma * sigma * (t.n * t.SS - t.S * t.S)

\* the bands outliers evaluates
Evaluated == IF call.bands = <<>> THEN bandNames(coll[1]) ELSE call.bands

\* the images of the result in which band B1 is flagged, by their B1 value
FlaggedB1 ==
    {ValueOf(coll[i], B1) : i \in {j \in 1..Len(coll) :
        ValueOf(result[j], B1 \o OutlierSuffix) = 1}}

DocCall ==
    /\ call.op = "outliers"
    /\ coll = DocCollection
    /\ call.bands = <<B1>>
    /\ ~call.drop

\* C8 (as claimed): outliers(bands=["B1"], sigma=2) on the values
\* [1,5,6,4,7,10] flags exactly 1 and 10.
C8_DocExampleSigma2FlagsExtremes ==
    (DocCall /\ call.sigma = 2) => FlaggedB1 = {1, 10}

\* C8 (amended): on the values [1,5,6,4,7,10] of band B1, sigma=2 flags no
\* value, and sigma=1 flags exactly 1 and 10.
C8_DocExample ==
    DocCall => /\ call.sigma = 2 => FlaggedB1 = {}
               /\ call.sigma = 1 => FlaggedB1 = {1, 10}

C8_Witness == DocCall /\ call.sigma = 2 /\ Len(result) = 6

\* C9: with drop=False every image gets, after its unchanged original bands,
\* one band b_outlier per evaluated band b, whose value is 1 exactly when the
\* value of b is above mean + sigma*stddev or below mean - sigma*stddev of b
\* over the collection, and 0 otherwise.
C9_OutlierBands ==
    (call.op = "outliers" /\ ~call.drop) =>
        /\ Len(result) = Len(coll)
        /\ \A i \in 1..Len(coll) :
             /\ bandNames(result[i])
                  = bandNames(coll[i])
                    \o [k \in 1..Len(Evaluated) |-> Evaluated[k] \o OutlierSuffix]
             /\ \A k \in 1..Len(coll[i]) : result[i][k] = coll[i][k]
        /\ \A k \in 1..Len(Evaluated) :
             LET t == Totals(SeriesOf(coll, Evaluated[k]))
             IN \A i \in 1..Len(coll) :
                  result[i][Len(coll[i]) + k].val
                    = Bool(IsOutlier(t, ValueOf(coll[i], Evaluated[k]), call.sigma))

C9_Witness ==
    /\ call.op = "outliers"
    /\ ~call.drop
    /\ call.bands = <<>>
    /\ call.sigma = 1
    /\ \E i \in 1..Len(result) :
         /\ ValueOf(result[i], B2 \o OutlierSuffix) = 1
         /\ ValueOf(result[i], B1 \o OutlierSuffix) = 0

\* C10: with drop=True every image has exactly the original bands; a pixel
\* flagged in an evaluated band is masked in that band, and every other band
\* value is the original one, still valid.
C10_DropMasksOutliers ==
    (call.op = "outliers" /\ call.drop) =>
        /\ Len(result) = Len(coll)
        /\ \A i \in 1..Len(coll) : bandNames(result[i]) = bandNames(coll[1])
        /\ \A k \in 1..Len(coll[1]) :
             LET b == coll[1][k].name
                 t == Totals(ValuesAt(coll, k))
             IN \A i \in 1..Len(coll) :
                  IF b \in Range(Evaluated) /\ IsOutlier(t, coll[i][k].val, call.sigma)
                  THEN ~result[i][k].mask
                  ELSE result[i][k] = coll[i][k]

C10_Witness ==
    /\ call.op = "outliers"
    /\ call.drop
    /\ call.bands = <<B2>>
    /\ \E i \in 1..Len(result) : ~result[i][2].mask /\ result[i][1].mask
    /\ \E i \in 1..Len(result) : result[i][2].mask

\* ---- claims about groupInterval --------------------------------------------

\* the sub-collections that hold the image
BucketsOf(image) == {b \in 1..Len(result) : image \in Range(result[b])}

Span == MaxOf([i \in 1..Len(coll) |-> coll[i].time])
          - MinOf([i \in 1..Len(coll) |-> coll[i].time])

\* C7: groupInterval partitions the collection by time: every image is in
\* exactly one returned sub-collection; a span of exactly `duration` units
\* gives one bucket that holds all images, a span of twice `duration` gives
\* two buckets.
C7_GroupIntervalPartitions ==
    call.op = "groupInterval" =>
        /\ \A i \in 1..Len(coll) : Cardinality(BucketsOf(coll[i])) = 1
        /\ Span = call.duration * unitMillis(call.unit)
             => Len(result) = 1 /\ Range(result[1]) = Range(coll)
        /\ Span = 2 * call.duration * unitMillis(call.unit) => Len(result) = 2

\* ---- claims about medoid ---------------------------------------------------

\* C1: medoid() returns the image with the smallest sum of distances: the sum
\* of distances of the returned image is <= the sum of distances of every
\* image of the collection.
C1_MedoidHasSmallestSum ==
    call.op = "medoid" =>
        \E k \in 1..Len(coll) :
            /\ result = normalized(coll)[k]
            /\ \A j \in 1..Len(coll) :
                 sumDistances(normalized(coll)[k], coll)
                   <= sumDistances(normalized(coll)[j], coll)

\* ---- claims about reduceRegion ---------------------------------------------

Returned(op) == call.op = op /\ ~call.raised

\* the formatted identifiers of the collection
FormattedIds == {formatProperty(coll[i].prop, call.idPropertyType) : i \in 1..Len(coll)}

\* the single pre-mosaicked image of a formatted identifier
MosaicOf(p) ==
    LET same == SelectSeq(coll, LAMBDA i : formatProperty(i.prop, call.idPropertyType) = p)
    IN reduceImages([i \in 1..Len(same) |-> same[i].bands], call.propertyReducer)

\* the reduced value of band k of an image
ReducedValue(image, k) == IF call.reducer = "count" THEN 1 ELSE image[k].val

\* C2: reduceRegion returns one outer key per distinct formatted identifier,
\* and under each identifier exactly the band names of the collection, each
\* with the reduced value of that band of the identifier's pre-mosaicked
\* image, also when one identifier is a prefix of another.
C2_ReduceRegionShape ==
    Returned("reduceRegion") =>
        /\ DOMAIN result = FormattedIds
        /\ \A p \in FormattedIds :
             /\ DOMAIN result[p] = Range(bandNames(coll[1].bands))
             /\ \A k \in 1..Len(coll[1].bands) :
                  result[p][coll[1].bands[k].name] = ReducedValue(MosaicOf(p), k)

\* C3: the band-name encoding round-trips: a stacked name <key>_<band> is
\* taken up by the prefix filter of its own key only, and removing the key
\* and one separator character gives back the band.
C3_BandNameRoundTrip ==
    Returned("reduceRegion") =>
        \A p \in FormattedIds : \A k \in 1..Len(coll[1].bands) :
            LET b == coll[1].bands[k].name
                n == p \o <<"_">> \o b
            IN {<<q, unstackKey(n, q)>> : q \in {x \in FormattedIds : StartsWith(n, x)}}
                 = {<<p, b>>}

\* ---- claims about Array ----------------------------------------------------

\* the argument n is a whole number
Whole(n) == n % Tenths = 0

\* C16: set(x, y, value) with in-range indices returns an array of the same
\* shape whose cell in row y, column x is value and whose other cells are the
\* cells of the array it was called on.
C16_SetReplacesOneCell ==
    (/\ call.op = "set"
     /\ Whole(call.x) /\ Whole(call.y)
     /\ (call.y \div Tenths) \in 0..(Len(coll) - 1)
     /\ (call.x \div Tenths) \in 0..(Len(coll[1]) - 1))
        => /\ ~call.raised
           /\ Len(result) = Len(coll)
           /\ \A r \in 1..Len(coll) :
                 /\ Len(result[r]) = Len(coll[r])
                 /\ \A c \in 1..Len(coll[r]) :
                       result[r][c] = IF /\ r = (call.y \div Tenths) + 1
                                         /\ c = (call.x \div Tenths) + 1
                                      THEN call.value ELSE coll[r][c]

\* full(3,3,1).set(1,1,0)
C16_Witness ==
    /\ call.op = "set"
    /\ coll = DocArray
    /\ call.x = 10 /\ call.y = 10 /\ call.value = 0
    /\ result = << <<10, 10, 10>>, <<10, 0, 10>>, <<10, 10, 10>> >>

\* C17: full(width, height, value) with whole width, height >= 1 returns
\* exactly height rows of exactly width columns, every cell equal to value.
C17_FullShapeAndValue ==
    (call.op = "full" /\ Whole(call.width) /\ Whole(call.height))
        => /\ Len(result) = call.height \div Tenths
           /\ \A r \in 1..Len(result) :
                 /\ Len(result[r]) = call.width \div Tenths
                 /\ \A c \in 1..Len(result[r]) : result[r][c] = call.value

C17_Witness ==
    /\ call.op = "full"
    /\ call.width = 30 /\ call.height = 10 /\ call.value = -25
    /\ result = << <<-25, -25, -25>> >>

\* ---- claims about containsAllBands and containsAnyBands --------------------

BandSet(i) == {i[k].name : k \in 1..Len(i)}

\* the positions of the images that the call has to keep
Kept ==
    {i \in 1..Len(coll) :
        IF call.op = "containsAllBands"
        THEN Range(call.names) \subseteq BandSet(coll[i])
        ELSE Range(call.names) \cap BandSet(coll[i]) # {}}

\* C18: containsAllBands keeps exactly the images that have every name,
\* containsAnyBands exactly the images that have at least one, in both cases
\* in the order of the collection and with nothing added.
C18_ContainsBandsKeepsExactly ==
    call.op \in {"containsAllBands", "containsAnyBands"} =>
        /\ Len(result) = Cardinality(Kept)
        /\ \A i \in Kept : result[Cardinality({j \in Kept : j <= i})] = coll[i]

C18_Witness ==
    /\ call.op = "containsAllBands"
    /\ call.names = <<B1, B2>>
    /\ Len(coll) = 3
    /\ bandNames(coll[1]) = <<B2, B1>>
    /\ bandNames(coll[2]) = <<B1>>
    /\ bandNames(coll[3]) = <<B1, B2>>
    /\ result = <<coll[1], coll[3]>>

\* ---- claims about integral -------------------------------------------------

\* the value of the integrated band in image i
SeriesValue(i) == select(coll[i].bands, <<call.band>>)[1].val

\* twice the trapezoidal sum in value x milliseconds
RECURSIVE TwiceTrapezoids(_)
TwiceTrapezoids(n) ==
    IF n < 2 THEN 0
    ELSE (SeriesValue(n - 1) + SeriesValue(n)) * (coll[n].time - coll[n - 1].time)
             + TwiceTrapezoids(n - 1)

\* the millisecond constant of the unit, or tn - t1 without a unit
UnitInterval ==
    CASE call.unit = "day" -> 86400000
      [] call.unit = "hour" -> 3600000
      [] call.unit = "minute" -> 60000
      [] call.unit = "second" -> 1000
      [] call.unit = "" -> coll[Len(coll)].time - coll[1].time

IncreasingTimes == \A i \in 2..Len(coll) : coll[i - 1].time < coll[i].time

\* C19: over a collection in increasing time order, integral returns the sum
\* for i = 2..n of ((v[i-1] + v[i]) / 2) * (t[i] - t[i-1]) / unitInterval,
\* the first image adding nothing; the returned fraction n/d equals
\* TwiceTrapezoids / (2 * UnitInterval).
C19_IntegralIsTrapezoidalSum ==
    (call.op = "integral" /\ ~call.raised /\ IncreasingTimes) =>
        IF Len(coll) = 1 THEN result.n = 0
        ELSE /\ result.d > 0
             /\ (2 * UnitInterval) % result.d = 0
             /\ result.n * ((2 * UnitInterval) \div result.d) = TwiceTrapezoids(Len(coll))

\* values 1, 3, 1 at 0 ms, 500 ms, 1500 ms, in seconds: 2 * 0.5 + 2 * 1 = 3
C19_Witness ==
    /\ call.op = "integral"
    /\ call.band = B1
    /\ call.unit = "second"
    /\ Len(coll) = 3
    /\ coll[1].time = 0 /\ coll[2].time = 500 /\ coll[3].time = 1500
    /\ SeriesValue(1) = 1 /\ SeriesValue(2) = 3 /\ SeriesValue(3) = 1
    /\ result = [n |-> 3, d |-> 1]

\* ---- claims about unsupported options --------------------------------------

\* the call was made with an option value that the method does not support
UnsupportedOption ==
    \/ call.op = "reduceRegion" /\ call.idPropertyType \notin {"String", "Number", "Date"}
    \/ call.op = "containsBandNames" /\ call.filter \notin {"ALL", "ANY"}
    \/ call.op = "reduceInterval"
           /\ call.reducer \notin {<<"f", "i", "r", "s", "t">>, <<"m", "a", "x">>,
                                   <<"m", "e", "a", "n">>}

Underscored(id) ==
    [k \in 1..(2 * Len(id) - 1) |-> IF k % 2 = 1 THEN id[(k + 1) \div 2] ELSE "_"]

\* the positions of the links of a document that carry the title
Matching(links, title) == {k \in 1..Len(links) : links[k].title = title}

FirstOf(S) == CHOOSE k \in S : \A j \in S : k <= j

\* C21: getSTAC goes from the root catalog to the project entry (title = first
\* segment of the asset id) to the collection entry (title = asset id with "/"
\* replaced by "_"); without a project match it raises naming the project and
\* requests nothing more, without a collection match it raises naming the
\* collection, and only with both does it fetch and return the collection
\* document.
C21_GetSTACResolvesInOrder ==
    call.op = "getSTAC" =>
        LET root == coll.web[catalog]
            pm == Matching(root, <<coll.assetId[1]>>)
        IN IF pm = {}
           THEN /\ call.raised
                /\ call.message = <<"Project", <<coll.assetId[1]>>>>
                /\ call.requests = <<catalog>>
           ELSE LET purl == root[FirstOf(pm)].href
                    cm == Matching(coll.web[purl], Underscored(coll.assetId))
                IN IF cm = {}
                   THEN /\ call.raised
                        /\ call.message[1] = "Collection"
                        /\ call.message[2] = Underscored(coll.assetId)
                        /\ call.requests = <<catalog, purl>>
                   ELSE /\ ~call.raised
                        /\ result = coll.web[purl][FirstOf(cm)].href
                        /\ call.requests = <<catalog, purl, result>>

C21_Witness ==
    /\ call.op = "getSTAC"
    /\ coll.assetId = <<"P", "a", "b">>
    /\ ~call.raised
    /\ call.requests = <<catalog, "p1.json", "c1.json">>
    /\ result = "c1.json"

\* ---- claims about doyByBands and doyByRegions ------------------------------

\* the days of the year on which the collection has an image
DaysOf(c) == {getRelative(c[k].date) : k \in 1..Len(c)}

\* the reduction of band n over the images of c that fall on day d of a year
DayReduction(c, n, d, red) ==
    LET same == SelectSeq(c, LAMBDA i : getRelative(i.date) = d)
        vs == [k \in 1..Len(same) |-> same[k].bands[IndexOf(bandNames(same[k].bands), n)].val]
    IN IF red = First THEN vs[1] ELSE MaxOf(vs)

\* the bands and the labels a doyByBands call stands for
BandsOfCall == IF call.bands = <<>> THEN bandNames(coll[1].bands) ELSE call.bands

LabelsOfCall == IF call.labels = <<>> THEN BandsOfCall ELSE call.labels

\* C23: doyByBands(bands=B, labels=L) yields a dictionary in which, for every
\* i and every day of the year on which the collection has an image, the
\* entry under L[i] is the reduction of band B[i] over the images of that
\* day; B may be a proper subset or a reordering of the bands, and with no
\* bands given every band is reduced under its own name.
C23_DoyByBandsReducesSelectedBands ==
    call.op = "doyByBands" =>
        /\ ~call.failed
        /\ \A i \in 1..Len(BandsOfCall) : \A d \in DaysOf(coll) :
              result[LabelsOfCall[i]][formatNumber(d)]
                  = DayReduction(coll, BandsOfCall[i], d, call.timeReducer)

\* ---- claims about reduceInterval -------------------------------------------

\* the buckets groupInterval cuts for the collection of the call
BucketsOfCall ==
    LET ic == sort(coll)
    IN split(ic[1].time, ic[Len(ic)].time, call.duration, call.unit)

\* C24: reduceInterval returns one reduced image per bucket of groupInterval,
\* and the image of a bucket carries the start of the bucket as
\* system:time_start and the end of the bucket as system:time_end, whatever
\* the times of the images in it.
C24_ReducedImagesCarryBucketBounds ==
    call.op = "reduceInterval" /\ ~call.raised =>
        /\ Len(result) = Len(BucketsOfCall)
        /\ \A k \in 1..Len(result) :
              /\ ~result[k].failed
              /\ result[k].time_start = BucketsOfCall[k].start
              /\ result[k].time_end = BucketsOfCall[k].end

\* ---- claims about User.create without a default, on failure, on a crash ------

CreateEnded == pc = "idle" /\ call.op = "create"

\* C25: create(name) called while no default credential file exists
\* completes: it does not raise, the authorization runs, and the call ends
\* with the new credential under credentials<name> and no default
\* credential file (unless credentials<name> is the default file itself).
C25_CreateWithoutDefaultCompletes ==
    (CreateEnded /\ call.pre[DefaultPath] = 0)
        => /\ ~call.raised
           /\ call.new # 0
           /\ fs[CreateTarget] = call.new
           /\ CreateTarget # DefaultPath => fs[DefaultPath] = 0


\* C26: create never loses the default credential that existed before the
\* call: once create has returned or raised, also when the authorization
\* raised, the default credential file holds the content it had before.
C26_CreateKeepsPreexistingDefault ==
    (CreateEnded /\ call.pre[DefaultPath] # 0)
        => fs[DefaultPath] = call.pre[DefaultPath]


\* C27: create is not crash-atomic: when the process crashes after the
\* default credential was moved to the temporary backup and before the
\* authorization wrote a new one, or after the new credential was relocated
\* and before the backup was moved back, no default credential file is in
\* place and the credential it held is in no file of the credential
\* directories, only in the orphaned backup.
C27_CrashLeavesNoDefault ==
    (/\ call.op = "crash"
     /\ \/ call.at = "authenticate"
        \/ call.at = "restore" /\ <<CredentialPath(call.dir), CredFile(call.name)>> # DefaultPath)
        => /\ fs[DefaultPath] = 0
           /\ call.orphan = call.pre[DefaultPath]
           /\ call.orphan # 0

C27_Witness ==
    /\ call.op = "crash"
    /\ call.at = "restore"
    /\ call.name = <<"A">>
    /\ call.pre[DefaultPath] = 1
    /\ fs[DefaultPath] = 0
    /\ call.orphan = 1


\* ---- claims about user names --------------------------------------------------

\* the file that set(n) and delete(n) address for a listed name n, "default"
\* standing for the empty name
Addressed(n) == CredFile(IF n = <<"default">> THEN <<>> ELSE n)

\* C28: user names round-trip through the credential directory: list()
\* returns pairwise distinct names, one per stored credential file, and the
\* file that set(n) / delete(n) address for a returned name n is the file
\* that produced n; this for every user name, a name that contains the text
\* credentials included.
C28_UserNamesRoundTrip ==
    call.op = "list" =>
        /\ \A i, j \in 1..Len(call.ret) : i # j => call.ret[i] # call.ret[j]
        /\ \A i \in 1..Len(call.ret) : Addressed(call.ret[i]) = call.files[i][2]


\* ---- claims about the image medoid returns ------------------------------------

\* C29: the image medoid() returns has the band names of the first image of
\* the collection, in their order, without the sum-of-distances band, and
\* its band values are the original, un-normalised values of one image of
\* the collection (a value v being Precision * v in fixed point).
C29_MedoidReturnsOriginalValues ==
    call.op = "medoid" =>
        /\ bandNames(result) = bandNames(coll[1])
        /\ sumOfDistancesName \notin Range(bandNames(result))
        /\ \E k \in 1..Len(coll) :
              \A b \in 1..Len(result) : result[b].val = Precision * coll[k][b].val


\* ---- claims about the day-of-year dictionaries --------------------------------

\* the day-of-year groups of the collection that hold an image
GroupsOfColl == nonEmptyGroups([k \in 1..Len(coll) |-> doy_tag(coll[k])])

\* the outer keys a day-of-year call stands for
OuterLabels ==
    IF call.op = "doyByBands" THEN Range(LabelsOfCall)
    ELSE {call.regions[r].label : r \in 1..Len(call.regions)}

\* C30: doyByBands and doyByRegions bucket the images into the 367
\* day-of-year groups 0..366 and keep the groups that hold an image, every
\* image in one group; in the dictionary they yield, the outer keys are the
\* band labels or the region labels, and the keys of every inner dictionary
\* are the day-of-year strings of the days on which the collection has an
\* image, one key per day.
C30_DoyKeysAreTheDaysWithImages ==
    call.op \in {"doyByBands", "doyByRegions"} =>
        /\ Range(dayList) = 0..366
        /\ \A groups \in {GroupsOfColl} :
              /\ {g.doy : g \in Range(groups)} = DaysOf(coll)
              /\ \A g \in Range(groups) : g.size > 0
              /\ SumSeq([k \in 1..Len(groups) |-> groups[k].size]) = Len(coll)
        /\ ~call.failed =>
              /\ DOMAIN result = OuterLabels
              /\ \A key \in DOMAIN result :
                    /\ DOMAIN result[key] = {formatNumber(d) : d \in DaysOf(coll)}
                    /\ Cardinality(DOMAIN result[key]) = Cardinality(DaysOf(coll))

C30_Witness ==
    /\ call.op = "doyByRegions"
    /\ Len(call.regions) = 2
    /\ Len(coll) = 2
    /\ DaysOf(coll) = {0, 365}
    /\ DOMAIN result = {LabelX, LabelY}
    /\ DOMAIN result[LabelY] = {<<"0">>, <<"3", "6", "5">>}

====
